---------------------------- MODULE Spec2Model ----------------------------
(***************************************************************************)
(* The Experiment aggregate of TissueMAPS                                  *)
(* (app/src/core/experiment/Experiment.ts): its constructor, its derived   *)
(* projections maxZoom / maxZ / minZ, and its remote lifecycle operations  *)
(* getAll / get / delete / create / submitWorkflow over $http and $q.      *)
(*                                                                         *)
(* JavaScript values are modelled by tagged records so that every          *)
(* comparison is between values of one shape:                              *)
(*   - a property that is absent reads as Undefined;                       *)
(*   - a number-valued getter yields [kind, n], kind one of "number",      *)
(*     "-Infinity", "Infinity", "TypeError" (the access threw);            *)
(*   - a promise is [state, value] with value a JSValue record.            *)
(***************************************************************************)
EXTENDS Integers, Sequences, FiniteSets, TLC

VARIABLES
    given,  \* the serialized record as the caller received it
    args,   \* that record as an object, handed to `new Experiment(args)`
    pc,     \* position of the synchronous caller: start / constructed / threw
    exp,    \* the Experiment under construction / constructed
    read,   \* the last projection evaluated on exp and what it yielded
    op,           \* the lifecycle operation issued: none / getAll / get / ...
    request,      \* the request handed to $http
    http,         \* the promise $http returned: [state, value]
    thenP,        \* the promise `.then(...)` derived from http
    catchP,       \* the promise `.catch(...)` derived from thenP
    deferredExp,  \* create's $q.defer(): the state of deferredExp.promise
    console       \* what console.log has received

newVars == <<given, args, pc, exp, read>>
lifeVars == <<op, request, http, thenP, catchP, deferredExp, console>>
vars == <<given, args, pc, exp, read, op, request, http, thenP, catchP, deferredExp,
          console>>

---------------------------------------------------------------------------
(* Bounds of the model                                                     *)

\* Longest channels array of a serialized experiment record.
MaxChannels == 2

\* Longest experiments list the service answers getAll with.
MaxRecords == 2

---------------------------------------------------------------------------
(* JavaScript values                                                       *)

Undefined == "undefined"

JSBool(b) == IF b THEN "true" ELSE "false"

\* obj.f for an object obj: the value of an own property, undefined otherwise.
Prop(obj, f) == IF f \in DOMAIN obj THEN obj[f] ELSE Undefined

Num(n) == [kind |-> "number", n |-> n]
NegInfinity == [kind |-> "-Infinity", n |-> 0]
PosInfinity == [kind |-> "Infinity", n |-> 0]
TypeErrorThrown == [kind |-> "TypeError", n |-> 0]
NotRead == [prop |-> "none", result |-> [kind |-> "none", n |-> 0]]

\* Sequences over S of length 0..n.
SeqUpTo(S, n) == UNION {[1..k -> S] : k \in 0..n}

---------------------------------------------------------------------------
(* Serialized records (the wire shape, snake_case)                         *)

WireFields == {"id", "name", "description", "status", "plate_format",
               "microscope_type", "plate_acquisition_mode", "mapobject_types",
               "workflow_description", "channels"}

ExperimentIds == {"e1", "e2"}

\* (minZ, maxZ) of a channel.
ZPairs == {<<0, 5>>, <<-2, 3>>}

\* The layers of a channel, each exposing maxZoom.
LayerLists == {<<>>, <<[maxZoom |-> 3]>>, <<[maxZoom |-> 4], [maxZoom |-> 3]>>}

\* A serialized channel record; it may or may not carry a visible field.
SerializedChannels ==
    LET base == {[minZ |-> z[1], maxZ |-> z[2], layers |-> l] :
                    z \in ZPairs, l \in LayerLists}
    IN base \cup {[minZ |-> b.minZ, maxZ |-> b.maxZ, layers |-> b.layers,
                   visible |-> v] : b \in base, v \in {"true", "false"}}

\* A complete serialized experiment record.
FullRecord(id, chs) ==
    [id |-> id, name |-> "name", description |-> "description",
     status |-> "waiting", plate_format |-> "384",
     microscope_type |-> "visiview", plate_acquisition_mode |-> "basic",
     mapobject_types |-> "cells", workflow_description |-> "workflow",
     channels |-> chs]

\* The record r with the fields of `missing` absent.
Without(r, missing) == [f \in (DOMAIN r) \ missing |-> r[f]]

\* Which fields a malformed record lacks: none, any single one, or all.
MissingSets == {{}} \cup {{f} : f \in WireFields} \cup {WireFields}

SerializedExperiments ==
    {Without(FullRecord(id, chs), m) :
        id \in {"e1"}, chs \in SeqUpTo(SerializedChannels, MaxChannels),
        m \in MissingSets}

---------------------------------------------------------------------------
(* Channel (external collaborator)                                         *)

\* _.extend(ch, {visible: v}): ch with its visible property set to v.  The
\* record ch itself is changed and returned.
Extend(ch, visible) ==
    [f \in (DOMAIN ch) \cup {"visible"} |->
        IF f = "visible" THEN JSBool(visible) ELSE ch[f]]

\* new Channel(chArgs): exposes visible, minZ, maxZ and layers.
Channel(chArgs) ==
    [visible |-> Prop(chArgs, "visible"), minZ |-> chArgs.minZ,
     maxZ |-> chArgs.maxZ, layers |-> chArgs.layers]

---------------------------------------------------------------------------
(* Experiment: construction                                                *)

\* The instance before the constructor body runs: `channels: Channel[] = []`.
BlankExperiment ==
    [id |-> Undefined, name |-> Undefined, description |-> Undefined,
     status |-> Undefined, plateFormat |-> Undefined,
     microscopeType |-> Undefined, plateAcquisitionMode |-> Undefined,
     mapobjectTypes |-> Undefined, workflowDescription |-> Undefined,
     channels |-> <<>>]

\* Variant: _.extend({visible: isFirstChannel}, ch), the arguments swapped,
\* so that a visible value of the record wins.
RECURSIVE ForEachChannelSourceWins(_, _)
ForEachChannelSourceWins(chs, this) ==
    IF chs = <<>> THEN this
    ELSE LET isFirstChannel == Len(this.channels) = 0
             ch == Head(chs)
             merged == IF "visible" \in DOMAIN ch THEN ch
                       ELSE Extend(ch, isFirstChannel)
             channel == Channel(merged)
         IN ForEachChannelSourceWins(Tail(chs),
                [channels |-> Append(this.channels, channel),
                 records |-> Append(this.records, ch)])

\* args.channels.forEach(...): one Channel pushed per record, in order.
\* `this` is [channels, records]: this.channels so far, and the records
\* visited so far as _.extend left them.
RECURSIVE ForEachChannel(_, _)
ForEachChannel(chs, this) ==
    IF chs = <<>> THEN this
    ELSE LET isFirstChannel == Len(this.channels) = 0
             ch == Extend(Head(chs), isFirstChannel)
             channel == Channel(ch)
         IN ForEachChannel(Tail(chs),
                [channels |-> Append(this.channels, channel),
                 records |-> Append(this.records, ch)])

NoChannels == [channels |-> <<>>, records |-> <<>>]

\* The nine scalar assignments of the constructor.
CopyScalars(a) ==
    [BlankExperiment EXCEPT
        !.id = Prop(a, "id"),
        !.name = Prop(a, "name"),
        !.description = Prop(a, "description"),
        !.status = Prop(a, "status"),
        !.plateFormat = Prop(a, "plate_format"),
        !.microscopeType = Prop(a, "microscope_type"),
        !.plateAcquisitionMode = Prop(a, "plate_acquisition_mode"),
        !.mapobjectTypes = Prop(a, "mapobject_types"),
        !.workflowDescription = Prop(a, "workflow_description")]

\* Variant: a constructor that validates its record and throws when any
\* expected field is missing.
NewExperimentValidating(a) ==
    IF WireFields \subseteq DOMAIN a
    THEN LET each == ForEachChannel(a.channels, NoChannels)
         IN [threw |-> FALSE,
             value |-> [CopyScalars(a) EXCEPT !.channels = each.channels],
             args |-> [a EXCEPT !.channels = each.records]]
    ELSE [threw |-> TRUE, value |-> BlankExperiment, args |-> a]

\* new Experiment(a): [threw, value, args], args being the record a as the
\* constructor leaves it.  args.channels.forEach on a record without
\* channels is a call on undefined, which throws a TypeError after the
\* scalar fields were assigned.
NewExperiment(a) ==
    IF "channels" \in DOMAIN a
    THEN LET each == ForEachChannel(a.channels, NoChannels)
         IN [threw |-> FALSE,
             value |-> [CopyScalars(a) EXCEPT !.channels = each.channels],
             args |-> [a EXCEPT !.channels = each.records]]
    ELSE [threw |-> TRUE, value |-> CopyScalars(a), args |-> a]

---------------------------------------------------------------------------
(* Experiment: derived projections                                         *)

\* Variant: the last layer of the first channel instead of its first.
MaxZoomOfLastLayer(e) ==
    IF Len(e.channels) = 0 THEN TypeErrorThrown
    ELSE IF Len(e.channels[1].layers) = 0 THEN TypeErrorThrown
    ELSE Num(e.channels[1].layers[Len(e.channels[1].layers)].maxZoom)

\* get maxZoom(): this.channels[0].layers[0].maxZoom
MaxZoom(e) ==
    IF Len(e.channels) = 0 THEN TypeErrorThrown
    ELSE IF Len(e.channels[1].layers) = 0 THEN TypeErrorThrown
    ELSE Num(e.channels[1].layers[1].maxZoom)

\* Variant: zs.reduce((a, b) => Math.max(a, b)), which throws a TypeError
\* on an empty array.
RECURSIVE MathMaxReduce(_)
MathMaxReduce(zs) ==
    IF zs = <<>> THEN TypeErrorThrown
    ELSE LET rest == MathMaxReduce(Tail(zs))
         IN IF rest.kind = "TypeError" \/ Head(zs) > rest.n
            THEN Num(Head(zs)) ELSE rest

\* Math.max(...zs): -Infinity for no arguments.
RECURSIVE MathMax(_)
MathMax(zs) ==
    IF zs = <<>> THEN NegInfinity
    ELSE LET rest == MathMax(Tail(zs))
         IN IF rest.kind = "-Infinity" \/ Head(zs) > rest.n
            THEN Num(Head(zs)) ELSE rest

\* Math.min(...zs): +Infinity for no arguments.
RECURSIVE MathMin(_)
MathMin(zs) ==
    IF zs = <<>> THEN PosInfinity
    ELSE LET rest == MathMin(Tail(zs))
         IN IF rest.kind = "Infinity" \/ Head(zs) < rest.n
            THEN Num(Head(zs)) ELSE rest

\* Variant: maxZ mapping the channels to their minZ.
MaxZOverMinZ(e) == MathMax([i \in 1..Len(e.channels) |-> e.channels[i].minZ])

\* get maxZ(): Math.max.apply(this, this.channels.map(ch => ch.maxZ))
MaxZ(e) == MathMax([i \in 1..Len(e.channels) |-> e.channels[i].maxZ])

\* get minZ(): Math.min.apply(this, this.channels.map(ch => ch.minZ))
MinZ(e) == MathMin([i \in 1..Len(e.channels) |-> e.channels[i].minZ])

---------------------------------------------------------------------------
(* Values carried by promises                                              *)

\* resp.data of an HTTP response: null, or an object of one of the shapes
\* the service answers with.
Data(kind, records, text) == [kind |-> kind, records |-> records, text |-> text]
NullData == Data("null", <<>>, "")
EmptyData == Data("empty", <<>>, "")
ErrorData(t) == Data("error", <<>>, t)
ExperimentData(r) == Data("experiment", <<r>>, "")
ExperimentsData(rs) == Data("experiments", rs, "")
BodyData(t) == Data("body", <<>>, t)

Value(kind, exps, text, data) ==
    [kind |-> kind, exps |-> exps, text |-> text, data |-> data]
UndefinedValue == Value("undefined", <<>>, "", NullData)
TrueValue == Value("true", <<>>, "", NullData)
TypeErrorValue == Value("TypeError", <<>>, "", NullData)
TextValue(t) == Value("text", <<>>, t, NullData)
ExperimentValue(e) == Value("Experiment", <<e>>, "", NullData)
ExperimentsValue(es) == Value("Experiments", es, "", NullData)
\* resp.data itself, handed on unwrapped.
DataValue(d) == Value("data", <<>>, "", d)
\* The response object resp, whose data is d.
Response(d) == Value("response", <<>>, "", d)

Promise(state, value) == [state |-> state, value |-> value]
NoPromise == Promise("none", UndefinedValue)
PendingPromise == Promise("Pending", UndefinedValue)
Resolved(v) == Promise("Resolved", v)
Rejected(v) == Promise("Rejected", v)
Settled(p) == p.state \in {"Resolved", "Rejected"}

\* What running a callback gives: it returned `value`, or threw it.
Returned(v) == [threw |-> FALSE, value |-> v]
Threw(v) == [threw |-> TRUE, value |-> v]

\* The promise a then/catch derives, from the outcome of its callback.
Derived(outcome) ==
    IF outcome.threw THEN Rejected(outcome.value) ELSE Resolved(outcome.value)

\* resp.data.error, for resp the reason a promise was rejected with: an
\* HTTP response, or an Error thrown by an earlier callback (whose .data is
\* undefined).  Reading .error of null or undefined throws a TypeError.
DataError(resp) ==
    IF resp.kind # "response" THEN Threw(TypeErrorValue)
    ELSE IF resp.data.kind = "null" THEN Threw(TypeErrorValue)
    ELSE IF resp.data.kind = "error" THEN Returned(TextValue(resp.data.text))
    ELSE Returned(UndefinedValue)

---------------------------------------------------------------------------
(* What the transport can answer                                           *)

\* Channel records the service lists.
WireChannels ==
    {[minZ |-> 0, maxZ |-> 5, layers |-> <<[maxZoom |-> 3]>>],
     [minZ |-> -2, maxZ |-> 3,
      layers |-> <<[maxZoom |-> 4], [maxZoom |-> 3]>>, visible |-> "true"]}

\* Records the service answers with: complete ones, and ones lacking
\* channels.
WireRecords ==
    {Without(FullRecord(id, chs), m) :
        id \in ExperimentIds, chs \in SeqUpTo(WireChannels, MaxChannels),
        m \in {{}, {"channels"}}}

ErrorPayloads == {"not found"}

\* A 2xx answer to each operation: the documented shape, or no data.
SuccessData(o) ==
    CASE o = "getAll" ->
            {ExperimentsData(rs) : rs \in SeqUpTo(WireRecords, MaxRecords)}
                \cup {NullData}
      [] o \in {"get", "create"} ->
            {ExperimentData(r) : r \in WireRecords} \cup {NullData}
      [] o = "delete" -> {EmptyData, NullData}
      [] OTHER -> {BodyData("submitted"), EmptyData, NullData}

\* A failed request: the service's {error}, an object without one, or (a
\* network failure) no data at all.
FailureData == {ErrorData(t) : t \in ErrorPayloads} \cup {EmptyData, NullData}

\* Arguments of create.
CreateArgs ==
    {[name |-> "name", description |-> "description", plateFormat |-> "384",
      microscopeType |-> "visiview", plateAcquisitionMode |-> "basic"]}

WorkflowArgs == {"workflow"}

---------------------------------------------------------------------------
(* The callbacks of the lifecycle operations                               *)

\* Variant: the Experiments collected in reverse.
RECURSIVE MapNewExperimentReversed(_)
MapNewExperimentReversed(rs) ==
    IF rs = <<>> THEN [threw |-> FALSE, exps |-> <<>>, records |-> <<>>]
    ELSE LET first == NewExperiment(Head(rs))
         IN IF first.threw
            THEN [threw |-> TRUE, exps |-> <<>>, records |-> rs]
            ELSE LET rest == MapNewExperimentReversed(Tail(rs))
                 IN [threw |-> rest.threw,
                     exps |-> Append(rest.exps, first.value),
                     records |-> <<first.args>> \o rest.records]

\* exps.map(e => new Experiment(e)): [threw, exps, records].  It throws as
\* soon as one constructor does; records are the listed records as the
\* constructors left them.
RECURSIVE MapNewExperiment(_)
MapNewExperiment(rs) ==
    IF rs = <<>> THEN [threw |-> FALSE, exps |-> <<>>, records |-> <<>>]
    ELSE LET first == NewExperiment(Head(rs))
         IN IF first.threw
            THEN [threw |-> TRUE, exps |-> <<>>, records |-> rs]
            ELSE LET rest == MapNewExperiment(Tail(rs))
                 IN [threw |-> rest.threw,
                     exps |-> <<first.value>> \o rest.exps,
                     records |-> <<first.args>> \o rest.records]

\* The response resp with the records of its data as the constructors left
\* them.
WithRecords(resp, rs) == Response([resp.data EXCEPT !.records = rs])

\* getAll's then callback: [outcome, resp].
GetAllOnFulfilled(resp) ==
    IF resp.data.kind # "experiments"
    THEN [outcome |-> Threw(TypeErrorValue), resp |-> resp]
    ELSE LET mapped == MapNewExperiment(resp.data.records)
         IN [outcome |-> IF mapped.threw THEN Threw(TypeErrorValue)
                         ELSE Returned(ExperimentsValue(mapped.exps)),
             resp |-> WithRecords(resp, mapped.records)]

\* get's then callback: [outcome, resp].
GetOnFulfilled(resp) ==
    IF resp.data.kind # "experiment"
    THEN [outcome |-> Threw(TypeErrorValue), resp |-> resp]
    ELSE LET made == NewExperiment(resp.data.records[1])
         IN [outcome |-> IF made.threw THEN Threw(TypeErrorValue)
                         ELSE Returned(ExperimentValue(made.value)),
             resp |-> WithRecords(resp, <<made.args>>)]

\* delete's then callback.
DeleteOnFulfilled(resp) == Returned(TrueValue)

\* Variant: a catch callback that rejects with the error it read.
DeleteOnRejectedRejects(resp) ==
    LET error == DataError(resp)
    IN IF error.threw THEN error ELSE Threw(error.value)

\* delete's catch callback: return resp.data.error.
DeleteOnRejected(resp) == DataError(resp)

\* create's then callback: [outcome, deferred, resp], deferred the state
\* of deferredExp.promise afterwards.
CreateOnFulfilled(resp, deferred) ==
    IF resp.data.kind # "experiment"
    THEN [outcome |-> Threw(TypeErrorValue), deferred |-> deferred,
          resp |-> resp]
    ELSE LET made == NewExperiment(resp.data.records[1])
         IN IF made.threw
            THEN [outcome |-> Threw(TypeErrorValue), deferred |-> deferred,
                  resp |-> resp]
            ELSE [outcome |-> Returned(UndefinedValue),
                  deferred |-> IF deferred.state = "Pending"
                               THEN Resolved(ExperimentValue(made.value))
                               ELSE deferred,
                  resp |-> WithRecords(resp, <<made.args>>)]

\* create's catch callback: deferredExp.reject(resp.data.error).
CreateOnRejected(resp, deferred) ==
    LET error == DataError(resp)
    IN IF error.threw
       THEN [outcome |-> error, deferred |-> deferred]
       ELSE [outcome |-> Returned(UndefinedValue),
             deferred |-> IF deferred.state = "Pending"
                          THEN Rejected(error.value) ELSE deferred]

\* submitWorkflow's then callback: console.log(resp); return resp.data.
SubmitOnFulfilled(resp) == Returned(DataValue(resp.data))

\* Variant: return $q.reject(resp.data.error), the rejection handed on.
SubmitOnRejectedReturnsRejection(resp) ==
    LET error == DataError(resp)
    IN IF error.threw THEN error ELSE Threw(error.value)

\* submitWorkflow's catch callback: $q.reject(resp.data.error) is built
\* and dropped; the callback returns nothing.
SubmitOnRejected(resp) ==
    LET error == DataError(resp)
    IN IF error.threw THEN error ELSE Returned(UndefinedValue)

\* The future each operation hands to its caller.
ReturnedFuture ==
    CASE op \in {"getAll", "get"} -> thenP
      [] op \in {"delete", "submitWorkflow"} -> catchP
      [] op = "create" -> deferredExp
      [] OTHER -> NoPromise

---------------------------------------------------------------------------
(* The synchronous caller: construct, then read projections                *)

LifeIdle ==
    /\ op = "none"
    /\ request = [method |-> "none", url |-> <<>>, body |-> "none"]
    /\ http = NoPromise
    /\ thenP = NoPromise
    /\ catchP = NoPromise
    /\ deferredExp = NoPromise
    /\ console = <<>>

InitNew ==
    /\ given \in SerializedExperiments
    /\ args = given
    /\ pc = "start"
    /\ exp = BlankExperiment
    /\ read = NotRead
    /\ LifeIdle

Construct ==
    /\ pc = "start"
    /\ LET r == NewExperiment(args)
       IN /\ exp' = r.value
          /\ args' = r.args
          /\ pc' = IF r.threw THEN "threw" ELSE "constructed"
    /\ UNCHANGED <<given, read>>
    /\ UNCHANGED lifeVars

ReadMaxZoom ==
    /\ pc = "constructed"
    /\ read' = [prop |-> "maxZoom", result |-> MaxZoom(exp)]
    /\ UNCHANGED <<given, args, pc, exp>>
    /\ UNCHANGED lifeVars

ReadMaxZ ==
    /\ pc = "constructed"
    /\ read' = [prop |-> "maxZ", result |-> MaxZ(exp)]
    /\ UNCHANGED <<given, args, pc, exp>>
    /\ UNCHANGED lifeVars

ReadMinZ ==
    /\ pc = "constructed"
    /\ read' = [prop |-> "minZ", result |-> MinZ(exp)]
    /\ UNCHANGED <<given, args, pc, exp>>
    /\ UNCHANGED lifeVars

NextNew == Construct \/ ReadMaxZoom \/ ReadMaxZ \/ ReadMinZ

NewSpec == InitNew /\ [][NextNew]_vars

---------------------------------------------------------------------------
(* The lifecycle operations                                                *)

Init ==
    /\ given = FullRecord("e1", <<>>)
    /\ args = given
    /\ pc = "idle"
    /\ exp = BlankExperiment
    /\ read = NotRead
    /\ LifeIdle

\* static getAll()
GetAll ==
    /\ op = "none"
    /\ op' = "getAll"
    /\ request' = [method |-> "GET", url |-> <<"/api/experiments">>,
                   body |-> "none"]
    /\ http' = PendingPromise
    /\ thenP' = PendingPromise
    /\ UNCHANGED <<catchP, deferredExp, console>>
    /\ UNCHANGED newVars

\* static get(id)
Get(id) ==
    /\ op = "none"
    /\ op' = "get"
    /\ request' = [method |-> "GET", url |-> <<"/api/experiments/", id>>,
                   body |-> "none"]
    /\ http' = PendingPromise
    /\ thenP' = PendingPromise
    /\ UNCHANGED <<catchP, deferredExp, console>>
    /\ UNCHANGED newVars

\* static delete(id)
Delete(id) ==
    /\ op = "none"
    /\ op' = "delete"
    /\ request' = [method |-> "DELETE", url |-> <<"/api/experiments/", id>>,
                   body |-> "none"]
    /\ http' = PendingPromise
    /\ thenP' = PendingPromise
    /\ catchP' = PendingPromise
    /\ UNCHANGED <<deferredExp, console>>
    /\ UNCHANGED newVars

\* static create(args)
Create(a) ==
    /\ op = "none"
    /\ op' = "create"
    /\ deferredExp' = PendingPromise
    /\ request' = [method |-> "POST", url |-> <<"/api/experiments">>,
                   body |-> [name |-> a.name, description |-> a.description,
                             plate_format |-> a.plateFormat,
                             microscope_type |-> a.microscopeType,
                             plate_acquisition_mode |->
                                 a.plateAcquisitionMode]]
    /\ http' = PendingPromise
    /\ thenP' = PendingPromise
    /\ catchP' = PendingPromise
    /\ UNCHANGED console
    /\ UNCHANGED newVars

\* this.submitWorkflow(workflowArgs)
SubmitWorkflow(this, workflowArgs) ==
    /\ op = "none"
    /\ op' = "submitWorkflow"
    /\ request' = [method |-> "POST",
                   url |-> <<"/api/experiments/", this.id, "/workflow">>,
                   body |-> workflowArgs]
    /\ http' = PendingPromise
    /\ thenP' = PendingPromise
    /\ catchP' = PendingPromise
    /\ UNCHANGED <<deferredExp, console>>
    /\ UNCHANGED newVars

\* The transport settles the request with a 2xx answer.
HttpSucceeds ==
    /\ http.state = "Pending"
    /\ \E d \in SuccessData(op) : http' = Resolved(Response(d))
    /\ UNCHANGED <<op, request, thenP, catchP, deferredExp, console>>
    /\ UNCHANGED newVars

\* The transport settles the request with a failure.
HttpFails ==
    /\ http.state = "Pending"
    /\ \E d \in FailureData : http' = Rejected(Response(d))
    /\ UNCHANGED <<op, request, thenP, catchP, deferredExp, console>>
    /\ UNCHANGED newVars

\* $q runs the .then callback once http has settled; a rejection passes
\* through to the derived promise.
ThenStep ==
    /\ Settled(http)
    /\ thenP.state = "Pending"
    /\ IF http.state = "Rejected"
       THEN /\ thenP' = Rejected(http.value)
            /\ UNCHANGED <<http, deferredExp, console>>
       ELSE CASE op = "getAll" ->
                    LET r == GetAllOnFulfilled(http.value)
                    IN /\ thenP' = Derived(r.outcome)
                       /\ http' = Resolved(r.resp)
                       /\ UNCHANGED <<deferredExp, console>>
              [] op = "get" ->
                    LET r == GetOnFulfilled(http.value)
                    IN /\ thenP' = Derived(r.outcome)
                       /\ http' = Resolved(r.resp)
                       /\ UNCHANGED <<deferredExp, console>>
              [] op = "delete" ->
                    /\ thenP' = Derived(DeleteOnFulfilled(http.value))
                    /\ UNCHANGED <<http, deferredExp, console>>
              [] op = "create" ->
                    LET r == CreateOnFulfilled(http.value, deferredExp)
                    IN /\ thenP' = Derived(r.outcome)
                       /\ deferredExp' = r.deferred
                       /\ http' = Resolved(r.resp)
                       /\ UNCHANGED console
              [] OTHER ->
                    /\ thenP' = Derived(SubmitOnFulfilled(http.value))
                    /\ console' = Append(console, http.value)
                    /\ UNCHANGED <<http, deferredExp>>
    /\ UNCHANGED <<op, request, catchP>>
    /\ UNCHANGED newVars

\* $q runs the .catch callback once thenP has settled; a fulfilment passes
\* through to the derived promise.
CatchStep ==
    /\ Settled(thenP)
    /\ catchP.state = "Pending"
    /\ IF thenP.state = "Resolved"
       THEN /\ catchP' = Resolved(thenP.value)
            /\ UNCHANGED deferredExp
       ELSE CASE op = "delete" ->
                    /\ catchP' = Derived(DeleteOnRejected(thenP.value))
                    /\ UNCHANGED deferredExp
              [] op = "create" ->
                    LET r == CreateOnRejected(thenP.value, deferredExp)
                    IN /\ catchP' = Derived(r.outcome)
                       /\ deferredExp' = r.deferred
              [] OTHER ->
                    /\ catchP' = Derived(SubmitOnRejected(thenP.value))
                    /\ UNCHANGED deferredExp
    /\ UNCHANGED <<op, request, http, thenP, console>>
    /\ UNCHANGED newVars

\* The instances submitWorkflow is called on.
Instances ==
    {NewExperiment(r).value : r \in {w \in WireRecords : ~NewExperiment(w).threw}}

Next ==
    \/ GetAll
    \/ \E id \in ExperimentIds : Get(id)
    \/ \E id \in ExperimentIds : Delete(id)
    \/ \E a \in CreateArgs : Create(a)
    \/ \E this \in Instances, w \in WorkflowArgs : SubmitWorkflow(this, w)
    \/ HttpSucceeds
    \/ HttpFails
    \/ ThenStep
    \/ CatchStep

Spec == Init /\ [][Next]_vars

\* $q runs every registered callback once its promise has settled; nothing
\* obliges the transport to settle.
FairSpec == Spec /\ WF_vars(ThenStep) /\ WF_vars(CatchStep)

---------------------------------------------------------------------------
(* Properties                                                              *)

\* The property each scalar wire field is copied to.
PropertyOf ==
    [id |-> "id", name |-> "name", description |-> "description",
     status |-> "status", plate_format |-> "plateFormat",
     microscope_type |-> "microscopeType",
     plate_acquisition_mode |-> "plateAcquisitionMode",
     mapobject_types |-> "mapobjectTypes",
     workflow_description |-> "workflowDescription"]

ScalarFields == DOMAIN PropertyOf

\* Channel c was built from serialized record r (visible aside).
BuiltFromChannel(c, r) ==
    c.minZ = r.minZ /\ c.maxZ = r.maxZ /\ c.layers = r.layers

\* Experiment e was built from serialized record r, which carries channels.
BuiltFrom(e, r) ==
    /\ \A f \in ScalarFields : e[PropertyOf[f]] = Prop(r, f)
    /\ Len(e.channels) = Len(r.channels)
    /\ \A j \in 1..Len(r.channels) :
          /\ BuiltFromChannel(e.channels[j], r.channels[j])
          /\ e.channels[j].visible = JSBool(j = 1)

\* The error payload the service reported in a failed response: its data's
\* error field, undefined when the data object has none.
ReportedError(resp) ==
    IF resp.data.kind = "error" THEN TextValue(resp.data.text)
    ELSE UndefinedValue

HasData(resp) == resp.data.kind # "null"

\* C1: a record with N >= 1 channel records constructs into exactly N
\* Channels, the i-th built from the i-th record, the channel at index 0
\* visible and every later one not, whatever visible the records carried.
C1_ChannelsInOrderFirstVisible ==
    (pc = "constructed" /\ Len(given.channels) >= 1) =>
        /\ Len(exp.channels) = Len(given.channels)
        /\ \A i \in 1..Len(given.channels) :
              /\ BuiltFromChannel(exp.channels[i], given.channels[i])
              /\ exp.channels[i].visible = JSBool(i = 1)

\* Two different records carrying visible = false, then visible = true.
C1_Witness ==
    /\ pc = "constructed"
    /\ Len(given.channels) = 2
    /\ Prop(given.channels[1], "visible") = "false"
    /\ Prop(given.channels[2], "visible") = "true"
    /\ given.channels[1].minZ # given.channels[2].minZ
    /\ exp.channels[1].visible = "true"
    /\ exp.channels[2].visible = "false"

\* C5: with at least one channel, maxZ is the greatest maxZ of the channels
\* and minZ the least minZ of the channels.
C5_ZExtremaOverChannels ==
    (pc = "constructed" /\ Len(exp.channels) >= 1) =>
        LET maxZs == {exp.channels[i].maxZ : i \in 1..Len(exp.channels)}
            minZs == {exp.channels[i].minZ : i \in 1..Len(exp.channels)}
        IN /\ read.prop = "maxZ" =>
                /\ read.result.kind = "number"
                /\ read.result.n \in maxZs
                /\ \A z \in maxZs : z <= read.result.n
           /\ read.prop = "minZ" =>
                /\ read.result.kind = "number"
                /\ read.result.n \in minZs
                /\ \A z \in minZs : read.result.n <= z

\* Channels (0,5) and (-2,3): minZ read as -2.
C5_Witness ==
    /\ pc = "constructed"
    /\ Len(exp.channels) = 2
    /\ exp.channels[1].minZ = 0 /\ exp.channels[1].maxZ = 5
    /\ exp.channels[2].minZ = -2 /\ exp.channels[2].maxZ = 3
    /\ read = [prop |-> "minZ", result |-> Num(-2)]

\* C6: with a first channel holding at least one layer, maxZoom is the
\* maxZoom of the first layer of the first channel, whatever the other
\* layers and channels hold.
C6_MaxZoomFirstLayerOnly ==
    (/\ pc = "constructed"
     /\ Len(exp.channels) >= 1
     /\ Len(exp.channels[1].layers) >= 1
     /\ read.prop = "maxZoom") =>
        /\ read.result = Num(exp.channels[1].layers[1].maxZoom)
        /\ read.result = Num(given.channels[1].layers[1].maxZoom)

\* Every other layer holds another maxZoom than the first layer of the
\* first channel.
C6_Witness ==
    /\ pc = "constructed"
    /\ Len(exp.channels) = 2
    /\ Len(exp.channels[1].layers) = 2
    /\ Len(exp.channels[2].layers) = 1
    /\ exp.channels[1].layers[2].maxZoom # exp.channels[1].layers[1].maxZoom
    /\ exp.channels[2].layers[1].maxZoom # exp.channels[1].layers[1].maxZoom
    /\ read = [prop |-> "maxZoom",
               result |-> Num(exp.channels[1].layers[1].maxZoom)]

\* C8 as stated: on an Experiment without channels each of maxZoom, maxZ
\* and minZ signals an error at the point of access.
C8_EmptyChannelsAlwaysThrow ==
    (pc = "constructed" /\ Len(exp.channels) = 0 /\ read.prop # "none") =>
        read.result.kind = "TypeError"

\* C8, amended: on an Experiment without channels maxZoom throws at the
\* point of access, maxZ yields -Infinity and minZ yields +Infinity; none
\* of the three guards against the empty case.
C8_EmptyChannelsProjections ==
    (pc = "constructed" /\ Len(exp.channels) = 0) =>
        /\ read.prop = "maxZoom" => read.result = TypeErrorThrown
        /\ read.prop = "maxZ" => read.result = NegInfinity
        /\ read.prop = "minZ" => read.result = PosInfinity

C8_Witness ==
    /\ pc = "constructed"
    /\ "channels" \in DOMAIN given
    /\ given.channels = <<>>
    /\ Len(exp.channels) = 0
    /\ read = [prop |-> "maxZ", result |-> NegInfinity]

\* C9 as stated: constructing from a record lacking any expected field,
\* channels included, never fails, and each missing field is undefined on
\* the Experiment.
C9_MissingFieldNeverFails ==
    pc # "start" =>
        /\ pc = "constructed"
        /\ \A f \in ScalarFields \ DOMAIN given : exp[PropertyOf[f]] = Undefined

\* C9, amended: construction fails exactly when the record lacks channels;
\* a record lacking scalar fields constructs, each missing scalar undefined
\* on the Experiment and each present one copied.
C9_MissingScalarNeverFails ==
    pc # "start" =>
        /\ pc = "threw" <=> "channels" \notin DOMAIN given
        /\ pc = "constructed" =>
              /\ \A f \in ScalarFields \ DOMAIN given :
                    exp[PropertyOf[f]] = Undefined
              /\ \A f \in ScalarFields \cap DOMAIN given :
                    exp[PropertyOf[f]] = given[f]

C9_Witness ==
    /\ pc = "constructed"
    /\ "plate_format" \notin DOMAIN given
    /\ exp.plateFormat = Undefined
    /\ Len(exp.channels) = 2

\* C2: create's future ends Rejected with the service-reported error when
\* the request fails, and Resolved with an Experiment built from the
\* answered record when it succeeds.
C2_CreateEndsRejectedOrResolved ==
    (op = "create" /\ Settled(catchP)) =>
        /\ http.state = "Rejected" =>
              deferredExp = Rejected(ReportedError(http.value))
        /\ (/\ http.state = "Resolved"
            /\ http.value.data.kind = "experiment"
            /\ "channels" \in DOMAIN http.value.data.records[1]) =>
              /\ deferredExp.state = "Resolved"
              /\ deferredExp.value.kind = "Experiment"
              /\ BuiltFrom(deferredExp.value.exps[1],
                           http.value.data.records[1])

\* C3 as stated: delete's future always ends Resolved, with the
\* service-reported error when the request fails and with true when it
\* succeeds.
C3_DeleteNeverRejects ==
    (op = "delete" /\ Settled(catchP)) =>
        /\ http.state = "Rejected" =>
              catchP = Resolved(ReportedError(http.value))
        /\ http.state = "Resolved" => catchP = Resolved(TrueValue)

\* C3, amended: delete's future ends Resolved with true on success and
\* Resolved with the reported error on a failure whose response carries
\* data; on a failure without data it ends Rejected with the TypeError the
\* failure callback raises.
C3_DeleteFoldsReportedError ==
    (op = "delete" /\ Settled(catchP)) =>
        /\ http.state = "Resolved" => catchP = Resolved(TrueValue)
        /\ (http.state = "Rejected" /\ HasData(http.value)) =>
              catchP = Resolved(ReportedError(http.value))
        /\ (http.state = "Rejected" /\ ~HasData(http.value)) =>
              catchP = Rejected(TypeErrorValue)

C3_Witness ==
    /\ op = "delete"
    /\ http = Rejected(Response(ErrorData("not found")))
    /\ catchP = Resolved(TextValue("not found"))

\* C4 as stated: submitWorkflow's future resolves to the raw response data
\* on success and is never rejected on failure.
C4_SubmitFailureNeverRejects ==
    (op = "submitWorkflow" /\ Settled(catchP)) =>
        /\ http.state = "Resolved" =>
              catchP = Resolved(DataValue(http.value.data))
        /\ http.state = "Rejected" => catchP.state # "Rejected"

\* C4, amended: submitWorkflow's future resolves to the raw response data
\* on success; on a failure whose response carries data it ends Resolved
\* with undefined; on a failure without data it ends Rejected with the
\* TypeError the failure callback raises, never with the service's error.
C4_SubmitDropsReportedError ==
    (op = "submitWorkflow" /\ Settled(catchP)) =>
        /\ http.state = "Resolved" =>
              catchP = Resolved(DataValue(http.value.data))
        /\ (http.state = "Rejected" /\ HasData(http.value)) =>
              catchP = Resolved(UndefinedValue)
        /\ (http.state = "Rejected" /\ ~HasData(http.value)) =>
              catchP = Rejected(TypeErrorValue)

C4_Witness ==
    /\ op = "submitWorkflow"
    /\ http = Rejected(Response(ErrorData("not found")))
    /\ catchP = Resolved(UndefinedValue)

\* C7: when the service lists k records (each carrying channels, as a
\* SerializedExperiment does), getAll's future resolves to k Experiments,
\* the i-th built from the i-th record.
C7_GetAllPreservesOrder ==
    (/\ op = "getAll"
     /\ Settled(thenP)
     /\ http.state = "Resolved"
     /\ http.value.data.kind = "experiments"
     /\ \A i \in 1..Len(http.value.data.records) :
           "channels" \in DOMAIN http.value.data.records[i]) =>
        /\ thenP.state = "Resolved"
        /\ thenP.value.kind = "Experiments"
        /\ Len(thenP.value.exps) = Len(http.value.data.records)
        /\ \A i \in 1..Len(http.value.data.records) :
              BuiltFrom(thenP.value.exps[i], http.value.data.records[i])

\* Two records listed as e2, e1.
C7_Witness ==
    /\ op = "getAll"
    /\ thenP.state = "Resolved"
    /\ thenP.value.kind = "Experiments"
    /\ Len(thenP.value.exps) = 2
    /\ http.value.data.records[1].id = "e2"
    /\ http.value.data.records[2].id = "e1"
    /\ thenP.value.exps[1].id = "e2"
    /\ thenP.value.exps[2].id = "e1"
    /\ Len(thenP.value.exps[1].channels) # Len(thenP.value.exps[2].channels)

\* C10: once the transport request of an operation has settled, the future
\* handed to the caller eventually is Resolved or Rejected.
C10_SettledTransportSettlesFuture ==
    Settled(http) ~> Settled(ReturnedFuture)

=============================================================================
